---------------------------- MODULE Spec2Model ----------------------------
(***************************************************************************)
(* knifetch: the retry engine (src/src/retry.ts) and the cookie jar        *)
(* (CookieJar over src/src/cookie.ts).                                     *)
(*                                                                         *)
(* The retry engine is modelled at the granularity of the JavaScript event *)
(* loop: one action is one macrotask (a timer callback, the settlement of  *)
(* a promise by the outside world, the abort event) together with every    *)
(* microtask it leaves behind.                                             *)
(***************************************************************************)
EXTENDS Integers, Sequences, FiniteSets, TLC

(***************************************************************************)
(* Bounds of the model.                                                    *)
(***************************************************************************)
\* numeric maxTries options range over 0..MaxTriesOpt
MaxTriesOpt == 3
\* cap on the attempt counter (binds only for maxTries = Infinity)
MaxAttempts == 6
\* cap on the number of cookies in the jar
MaxStore == 2
\* Date.now() ranges over 1..MaxNow
MaxNow == 2

(***************************************************************************)
(* Program constants.                                                      *)
(***************************************************************************)
\* retry.ts:59  options?.maxTries || 5
DefaultMaxTries == 5

VARIABLES
  \* ---- one call of retry(fn, options) ----
  cfg,             \* the options of the call
  phase,           \* where work() is suspended
  attemptedTimes,  \* retry.ts:60
  timeoutID,       \* retry.ts:61: the attempt whose timer is armed, 0 if none
  ops,             \* attempts whose fn() promise is still pending
  result,          \* the promise returned by retry()
  signal,          \* state of options.signal
  \* ---- observations (history) ----
  fnCalls,         \* invocations of fn
  predCalls,       \* invocations of options.predicate
  failCount,       \* attempts that ended in the catch block
  lastFailure,     \* the error caught last
  racesWon,        \* attempts whose race was won by a value of fn
  predTrue,        \* some evaluation of options.predicate yielded true
  onlyPredFailed,  \* every failure so far was ATTEMPT_PREDICATE_FAILED
  cbCount,         \* invocations of options.onAttemptFailed
  cbLast,          \* arguments of its last invocation
  hostErrors,      \* exceptions of the callback, reported to the host
  lastDelay,       \* delay computed after the last failure
  delayTimer,      \* the delay timer of the last failure
  abortPhase,      \* what work() was doing when the abort event fired
  \* ---- one CookieJar ----
  store,           \* _store: the cookies, each with the response it came in
  now,             \* Date.now()
  out,             \* what the last call returned, when it was getCookies
  dropped,         \* the responses whose cookies the last setCookie dropped
  target,          \* the URL of the last call, when it was getCookies
  selected,        \* the cookies of _store that call selected
  removal,         \* the argument of the last call, when it was removeCookies,
                   \* and the number of cookies it deleted
  \* ---- one cookie object handed to cookieToString ----
  stage,           \* how far the caller got: "none", "built", "written", "read"
  original,        \* the fields of the object when it was built
  subject,         \* the fields of the object now
  written,         \* what cookieToString returned
  parsed           \* what parseSetCookie made of that string

retryVars == <<cfg, phase, attemptedTimes, timeoutID, ops, result, signal,
               fnCalls, predCalls, failCount, lastFailure, racesWon, predTrue, onlyPredFailed,
               cbCount, cbLast, hostErrors, lastDelay, delayTimer, abortPhase>>

jarVars == <<store, now, out, dropped, target, selected, removal>>

cookieVars == <<stage, original, subject, written, parsed>>

vars == <<retryVars, jarVars, cookieVars>>

\* what the catch block and the code after it write
failVars == <<failCount, lastFailure, onlyPredFailed, cbCount, cbLast,
              hostErrors, lastDelay, delayTimer>>

\* the jar before any call
NoRemoval ==
  [matcher |-> [domain |-> << >>, path |-> << >>, name |-> << >>], count |-> -1]
NoURL == [protocol |-> "", hostname |-> << >>, pathname |-> << >>]
NoOutput == [threw |-> FALSE, texts |-> << >>]

\* no cookie object yet
NoCookie ==
  [name |-> << >>, value |-> << >>, expires |-> << >>, maxAge |-> << >>,
   domain |-> << >>, path |-> << >>, secure |-> FALSE, httpOnly |-> FALSE,
   partitioned |-> FALSE, sameSite |-> << >>, unparsed |-> << >>]
NoText == [threw |-> FALSE, text |-> << >>]

(***************************************************************************)
(* Inputs of a call.                                                       *)
(***************************************************************************)
MaxTriesOptions ==
  {[kind |-> "omitted", n |-> 0], [kind |-> "infinity", n |-> 0]}
    \cup {[kind |-> "number", n |-> i] : i \in 0..MaxTriesOpt}

Configs ==
  [maxTries  : MaxTriesOptions,
   predicate : BOOLEAN,                      \* options.predicate is a function
   callback  : {"none", "ok", "throws"},     \* options.onAttemptFailed
   signal    : {"none", "live", "aborted"},  \* options.signal at call time
   optsThrow : BOOLEAN]                      \* timeout/delay/predicate may throw

\* what options.delay (a number or a function of the attempt) may yield
DelayValues == {-1, 0, 100}

Pending == [st |-> "pending", val |-> 0, err |-> "none"]
Fulfilled(v) == [st |-> "fulfilled", val |-> v, err |-> "none"]
Rejected(e) == [st |-> "rejected", val |-> 0, err |-> e]

\* the value fn() produces in attempt n: each invocation yields its own value
ValueOf(n) == n

(***************************************************************************)
(* retry.ts:59  const maxTries = options?.maxTries || 5                    *)
(* 0 stands for Infinity's absence: the result is a number or "infinity".  *)
(***************************************************************************)
maxTries ==
  IF cfg.maxTries.kind = "omitted" \/ (cfg.maxTries.kind = "number" /\ cfg.maxTries.n = 0)
    THEN [inf |-> FALSE, n |-> DefaultMaxTries]
    ELSE [inf |-> cfg.maxTries.kind = "infinity", n |-> cfg.maxTries.n]

ExceedsMaxTriesOffByOne(n) == ~maxTries.inf /\ n >= maxTries.n

\* retry.ts:64  ++attemptedTimes > maxTries
ExceedsMaxTries(n) == ~maxTries.inf /\ n > maxTries.n

RaceLastWins(cur, new) == new

\* Promise.race (retry.ts:119): the first settlement wins, later ones are ignored
Race(cur, new) == IF cur.st = "pending" THEN new ELSE cur

onAttemptFailedArgsZeroBased(error) == [err |-> error, idx |-> attemptedTimes' - 1]

\* retry.ts:96  the arguments the queued microtask passes to onAttemptFailed
onAttemptFailedArgs(error) == [err |-> error, idx |-> attemptedTimes']

DelayAwaitedNever(d) == FALSE

\* retry.ts:101  if (delay > 0) await ...
DelayAwaited(d) == d > 0

PredicateRejectsNever(r) == FALSE

\* retry.ts:86-89  typeof options.predicate === "function" && !(await ...)
PredicateRejects(r) == r # "true"

IsRacingOrAwaitingPredicate(n) ==
  n = attemptedTimes /\ phase \in {"racing", "predicate"}

IsRacingAnyAttempt(n) == phase = "racing"

\* retry.ts:81  the race of attempt n is still undecided
IsRacing(n) == n = attemptedTimes /\ phase = "racing"

(***************************************************************************)
(* retry.ts:94-111: the catch block and what follows it.                   *)
(***************************************************************************)
Fail(error) ==
  /\ failCount' = failCount + 1
  /\ lastFailure' = error
  /\ onlyPredFailed' = (onlyPredFailed /\ error = "ATTEMPT_PREDICATE_FAILED")
  \* queueMicrotask(() => options.onAttemptFailed?.(error, attemptedTimes))
  /\ IF cfg.callback = "none"
       THEN UNCHANGED <<cbCount, cbLast, hostErrors>>
       ELSE /\ cbCount' = cbCount + 1
            /\ cbLast' = onAttemptFailedArgs(error)
            /\ hostErrors' = IF cfg.callback = "throws" THEN hostErrors + 1 ELSE hostErrors
  \* const delay = maybeByAttemptTimes(options.delay || 0, attemptedTimes)
  /\ \/ /\ cfg.optsThrow
        /\ phase' = "done"
        /\ result' = Race(result, Rejected("DELAY_OPTION_ERROR"))
        /\ UNCHANGED <<lastDelay, delayTimer>>
     \/ \E d \in DelayValues :
          /\ lastDelay' = d
          /\ IF DelayAwaited(d)
               THEN phase' = "delaying" /\ delayTimer' = "armed"
               ELSE phase' = "scheduled" /\ delayTimer' = "none"
          /\ UNCHANGED result

ReturnAndGoOn(v) ==
  /\ phase' = "scheduled"
  /\ result' = Race(result, Fulfilled(v))
  /\ UNCHANGED <<failVars>>

\* retry.ts:93  return value
Return(v) ==
  /\ phase' = "done"
  /\ result' = Race(result, Fulfilled(v))
  /\ UNCHANGED <<failVars>>

\* retry.ts:83-93: the race was won by fn() with value v
OnValue(v) ==
  IF cfg.predicate
    THEN /\ predCalls' = predCalls + 1
         /\ racesWon' = racesWon + 1
         /\ phase' = "predicate"
         /\ UNCHANGED <<result, failVars>>
    ELSE Return(v) /\ racesWon' = racesWon + 1 /\ UNCHANGED predCalls

(***************************************************************************)
(* retry.ts:63-93: one call of work(), up to its first suspension.         *)
(***************************************************************************)
work ==
  LET n == attemptedTimes + 1 IN
  /\ attemptedTimes' = n
  /\ IF ExceedsMaxTries(n)
       THEN /\ phase' = "done"
            /\ result' = Race(result, Rejected("MAX_RETRIES_REACHED"))
            /\ UNCHANGED <<timeoutID, ops, fnCalls, predCalls, racesWon, failVars>>
       ELSE \/ \* options.timeout is a function that throws
               /\ cfg.optsThrow
               /\ Fail("TIMEOUT_OPTION_ERROR")
               /\ UNCHANGED <<timeoutID, ops, fnCalls, predCalls, racesWon>>
            \/ \* clearTimeout(timeoutID); timeoutID = setTimeout(...); fn()
               /\ timeoutID' = n
               /\ fnCalls' = fnCalls + 1
               /\ \/ \* fn() returns a promise that is still pending
                     /\ ops' = ops \cup {n}
                     /\ phase' = "racing"
                     /\ UNCHANGED <<result, predCalls, racesWon, failVars>>
                  \/ \* fn() throws, or returns an already rejected promise
                     /\ Fail("OP_REJECTED")
                     /\ UNCHANGED <<ops, predCalls, racesWon>>
                  \/ \* fn() returns a value, or an already fulfilled promise
                     /\ OnValue(ValueOf(n))
                     /\ UNCHANGED ops

(***************************************************************************)
(* Actions.                                                                *)
(***************************************************************************)
\* retry.ts:55-121: the call itself, up to its first suspension
retry ==
  /\ UNCHANGED <<jarVars, cookieVars>>
  /\ phase = "idle"
  /\ work
  /\ UNCHANGED <<cfg, signal, abortPhase, predTrue>>

\* the promise of attempt n's fn() is settled by the outside world
OpSettle ==
  \E n \in ops, how \in {"fulfil", "reject"} :
    /\ UNCHANGED <<jarVars, cookieVars>>
    /\ ops' = ops \ {n}
    /\ UNCHANGED <<cfg, attemptedTimes, timeoutID, signal, fnCalls, abortPhase,
                   predTrue>>
    /\ IF IsRacing(n)
         THEN IF how = "fulfil"
                THEN OnValue(ValueOf(n))
                ELSE Fail("OP_REJECTED") /\ UNCHANGED <<predCalls, racesWon>>
         ELSE UNCHANGED <<phase, result, predCalls, racesWon, failVars>>

\* retry.ts:77: the per-attempt timer fires
TimeoutFire ==
  /\ UNCHANGED <<jarVars, cookieVars>>
  /\ timeoutID # 0
  /\ timeoutID' = 0
  /\ UNCHANGED <<cfg, attemptedTimes, ops, signal, fnCalls, predCalls, racesWon,
                 abortPhase, predTrue>>
  /\ IF IsRacing(timeoutID)
       THEN Fail("ATTEMPT_TIMEOUT_REACHED")
       ELSE UNCHANGED <<phase, result, failVars>>

\* retry.ts:88: the promise returned by options.predicate settles
PredSettle ==
  /\ UNCHANGED <<jarVars, cookieVars>>
  /\ phase = "predicate"
  /\ UNCHANGED <<cfg, attemptedTimes, timeoutID, ops, signal, fnCalls,
                 predCalls, racesWon, abortPhase>>
  /\ \E r \in {"true", "false"} \cup (IF cfg.optsThrow THEN {"throws"} ELSE {}) :
       /\ predTrue' = (predTrue \/ r = "true")
       /\ IF r = "throws"
            THEN Fail("PREDICATE_ERROR")
            ELSE IF PredicateRejects(r)
                   THEN Fail("ATTEMPT_PREDICATE_FAILED")
                   ELSE Return(ValueOf(attemptedTimes))

\* retry.ts:102: the delay timer fires
DelayElapsed ==
  /\ UNCHANGED <<jarVars, cookieVars>>
  /\ phase = "delaying"
  /\ phase' = "scheduled"
  /\ delayTimer' = "fired"
  /\ UNCHANGED <<cfg, attemptedTimes, timeoutID, ops, result, signal, fnCalls,
                 predCalls, failCount, lastFailure, racesWon, predTrue,
                 onlyPredFailed, cbCount, cbLast, hostErrors, lastDelay,
                 abortPhase>>

\* retry.ts:108-110: the 0 ms timer fires and calls work()
StartAttempt ==
  /\ UNCHANGED <<jarVars, cookieVars>>
  /\ phase = "scheduled"
  /\ attemptedTimes < MaxAttempts
  /\ work
  /\ UNCHANGED <<cfg, signal, abortPhase, predTrue>>

\* retry.ts:115-120: the signal's abort event fires
Abort ==
  /\ UNCHANGED <<jarVars, cookieVars>>
  /\ phase # "idle"
  /\ signal = "live"
  /\ signal' = "aborted"
  /\ abortPhase' = IF phase = "done" THEN "settled" ELSE "running"
  /\ result' = Race(result, Rejected("RETRY_IS_ABORTED"))
  /\ UNCHANGED <<cfg, phase, attemptedTimes, timeoutID, ops, fnCalls,
                 predCalls, racesWon, predTrue, failVars>>

Init ==
  /\ cfg \in Configs
  /\ phase = "idle"
  /\ attemptedTimes = 0
  /\ timeoutID = 0
  /\ ops = {}
  /\ result = Pending
  /\ signal = cfg.signal
  /\ fnCalls = 0
  /\ predCalls = 0
  /\ failCount = 0
  /\ lastFailure = "none"
  /\ racesWon = 0
  /\ predTrue = FALSE
  /\ onlyPredFailed = TRUE
  /\ cbCount = 0
  /\ cbLast = [err |-> "none", idx |-> 0]
  /\ hostErrors = 0
  /\ lastDelay = 0
  /\ delayTimer = "none"
  /\ abortPhase = "none"
  /\ store = << >>
  /\ now = 1
  /\ out = NoOutput
  /\ dropped = {}
  /\ target = NoURL
  /\ selected = << >>
  /\ removal = NoRemoval
  /\ stage = "none"
  /\ original = NoCookie
  /\ subject = NoCookie
  /\ written = NoText
  /\ parsed = << >>

Next ==
  \/ retry
  \/ OpSettle
  \/ TimeoutFire
  \/ PredSettle
  \/ DelayElapsed
  \/ StartAttempt
  \/ Abort

Spec == Init /\ [][Next]_vars

\* calls with a finite maxTries whose options do not throw
LiveInit ==
  /\ Init
  /\ cfg.maxTries.kind # "infinity"
  /\ ~cfg.optsThrow

\* the event loop runs every timer that is due (retry.ts:77, 102, 108), and
\* the promise of options.predicate settles; nothing makes fn() settle, and
\* nothing makes the signal fire
LiveSpec ==
  /\ LiveInit
  /\ [][Next]_vars
  /\ WF_vars(TimeoutFire)
  /\ WF_vars(DelayElapsed)
  /\ WF_vars(StartAttempt)
  /\ WF_vars(PredSettle)

(***************************************************************************)
(* The cookie model (src/src/cookie.ts).  A string is a sequence of        *)
(* one-character strings; an optional field is None or Some(x).            *)
(***************************************************************************)
None == << >>
Some(x) == <<x>>
IsSome(m) == m # << >>
Get(m) == m[1]

\* String.prototype.startsWith / endsWith
StartsWith(s, p) == Len(p) <= Len(s) /\ SubSeq(s, 1, Len(p)) = p
EndsWith(s, p) == Len(p) <= Len(s) /\ SubSeq(s, Len(s) - Len(p) + 1, Len(s)) = p

\* index of the first occurrence of character c in s, 0 if there is none
IndexOf(s, c) ==
  IF \E i \in 1..Len(s) : s[i] = c
    THEN CHOOSE i \in 1..Len(s) : s[i] = c /\ \A j \in 1..(i - 1) : s[j] # c
    ELSE 0

\* String.prototype.split(c)
RECURSIVE Split(_, _)
Split(s, c) ==
  LET i == IndexOf(s, c) IN
  IF i = 0 THEN <<s>>
  ELSE <<SubSeq(s, 1, i - 1)>> \o Split(SubSeq(s, i + 1, Len(s)), c)

\* String.prototype.trim (the only white space of the model is the blank)
RECURSIVE TrimStart(_)
TrimStart(s) ==
  IF s # << >> /\ s[1] = " " THEN TrimStart(Tail(s)) ELSE s

RECURSIVE TrimEnd(_)
TrimEnd(s) ==
  IF s # << >> /\ s[Len(s)] = " " THEN TrimEnd(SubSeq(s, 1, Len(s) - 1)) ELSE s

Trim(s) == TrimEnd(TrimStart(s))

UpperCase == <<"A","B","C","D","E","F","G","H","I","J","K","L","M",
               "N","O","P","Q","R","S","T","U","V","W","X","Y","Z">>
LowerCase == <<"a","b","c","d","e","f","g","h","i","j","k","l","m",
               "n","o","p","q","r","s","t","u","v","w","x","y","z">>

\* String.prototype.toLowerCase
ToLowerCase(s) ==
  [i \in 1..Len(s) |->
     IF \E k \in 1..Len(UpperCase) : UpperCase[k] = s[i]
       THEN LowerCase[CHOOSE k \in 1..Len(UpperCase) : UpperCase[k] = s[i]]
       ELSE s[i]]

Digits == <<"0","1","2","3","4","5","6","7","8","9">>
IsDigit(c) == \E k \in 1..Len(Digits) : Digits[k] = c
DigitValue(c) == (CHOOSE k \in 1..Len(Digits) : Digits[k] = c) - 1

RECURSIVE Decimal(_)
Decimal(s) ==
  IF s = << >> THEN 0
  ELSE 10 * Decimal(SubSeq(s, 1, Len(s) - 1)) + DigitValue(s[Len(s)])

AllDigits(s) == s # << >> /\ \A i \in 1..Len(s) : IsDigit(s[i])

\* a JavaScript number: an integer or NaN
NaN == [nan |-> TRUE, n |-> 0]
Num(n) == [nan |-> FALSE, n |-> n]

\* Number(string) on the strings of the model: blanks are trimmed, "" is 0,
\* an optionally signed run of digits is its value, anything else is NaN
NumberOf(s) ==
  LET t == Trim(s) IN
  IF t = << >> THEN Num(0)
  ELSE IF AllDigits(t) THEN Num(Decimal(t))
  ELSE IF t[1] = "-" /\ AllDigits(Tail(t)) THEN Num(0 - Decimal(Tail(t)))
  ELSE NaN

\* new Date(string): the model writes an instant as its decimal number of
\* time units; every other string is an Invalid Date, whose time value is NaN
DateOf(s) == IF AllDigits(s) THEN Num(Decimal(s)) ELSE NaN

AttrOfSecondField(attr) ==
  LET fields == Split(Trim(attr), "=") IN
  [key |-> fields[1], value |-> IF Len(fields) > 1 THEN fields[2] ELSE << >>]

\* cookie.ts:292-293  const [key, ...values] = attr.trim().split("=")
AttrOf(attr) ==
  LET t == Trim(attr)
      i == IndexOf(t, "=")
  IN IF i = 0 THEN [key |-> t, value |-> << >>]
     ELSE [key |-> SubSeq(t, 1, i - 1), value |-> SubSeq(t, i + 1, Len(t))]

\* cookie.ts:291-294
AttrsOf(value) ==
  LET parts == Split(value, ";") IN [i \in 1..Len(parts) |-> AttrOf(parts[i])]

\* cookie.ts:300-303
NewCookie(name, value) ==
  [name |-> name, value |-> value, expires |-> None, maxAge |-> None,
   domain |-> None, path |-> None, secure |-> FALSE, httpOnly |-> FALSE,
   partitioned |-> FALSE, sameSite |-> None, unparsed |-> None]

\* cookie.ts:323  value.trim().replace(/^\./, "")
DomainOf(value) ==
  LET t == Trim(value) IN IF t # << >> /\ t[1] = "." THEN Tail(t) ELSE t

\* cookie.ts:306-348: one turn of the loop over the attributes; the result
\* is the cookie, or None when the loop returns null
ParseAttr(cookie, attr) ==
  LET key == ToLowerCase(attr.key) IN
  IF key = <<"e","x","p","i","r","e","s">>
    THEN Some([cookie EXCEPT !.expires = Some([date |-> TRUE, t |-> DateOf(attr.value)])])
  ELSE IF key = <<"m","a","x","-","a","g","e">>
    THEN LET n == NumberOf(attr.value) IN
         IF ~n.nan /\ n.n < 0 THEN None
         ELSE Some([cookie EXCEPT !.maxAge = Some(n)])
  ELSE IF key = <<"d","o","m","a","i","n">>
    THEN Some([cookie EXCEPT !.domain = Some(DomainOf(attr.value))])
  ELSE IF key = <<"p","a","t","h">>
    THEN Some([cookie EXCEPT !.path = Some(attr.value)])
  ELSE IF key = <<"s","e","c","u","r","e">>
    THEN Some([cookie EXCEPT !.secure = TRUE])
  ELSE IF key = <<"h","t","t","p","o","n","l","y">>
    THEN Some([cookie EXCEPT !.httpOnly = TRUE])
  ELSE IF key = <<"s","a","m","e","s","i","t","e">>
    THEN Some([cookie EXCEPT !.sameSite = Some(attr.value)])
  ELSE Some([cookie EXCEPT !.unparsed =
               Some((IF IsSome(@) THEN Get(@) ELSE << >>)
                      \o <<attr.key \o <<"=">> \o attr.value>>)])

RECURSIVE ParseAttrs(_, _)
ParseAttrs(cookie, attrs) ==
  IF attrs = << >> THEN Some(cookie)
  ELSE LET r == ParseAttr(cookie, Head(attrs)) IN
       IF r = None THEN None ELSE ParseAttrs(Get(r), Tail(attrs))

\* cookie.ts:350-381: the reserved name prefixes
PrefixOk(cookie) ==
  /\ StartsWith(cookie.name, <<"_","_","S","e","c","u","r","e","-">>) => cookie.secure
  /\ StartsWith(cookie.name, <<"_","_","H","o","s","t","-">>) =>
       /\ cookie.secure
       /\ cookie.domain = None
       /\ cookie.path = Some(<<"/">>)

\* cookie.ts:290-382: the cookie, or None for null
parseSetCookie(value) ==
  LET attrs == AttrsOf(value)
      r == ParseAttrs(NewCookie(attrs[1].key, attrs[1].value), Tail(attrs))
  IN IF r # None /\ PrefixOk(Get(r)) THEN r ELSE None

RECURSIVE getSetCookies(_)
\* cookie.ts:408-417: headers are given as the list of their Set-Cookie values
getSetCookies(headers) ==
  IF headers = << >> THEN << >>
  ELSE parseSetCookie(Head(headers)) \o getSetCookies(Tail(headers))

(***************************************************************************)
(* cookieToString (cookie.ts:79-137).  Every character of the model is     *)
(* printable US-ASCII.                                                     *)
(***************************************************************************)
\* cookie.ts:139  FIELD_CONTENT_REGEXP: characters a name must not contain
NameForbidden ==
  {" ", "\"", "(", ")", ",", ":", ";", "<", "=", ">", "?", "@", "[", "\\",
   "]", "{", "}"}

\* cookie.ts:145-149
validateName(name) ==
  name = << >> \/ \A i \in 1..Len(name) : name[i] \notin NameForbidden

\* cookie.ts:179-204
validateValue(value) ==
  \A i \in 1..Len(value) : value[i] \notin {" ", "\"", ",", ";", "\\"}

\* cookie.ts:211-220
validateDomain(domain) ==
  ~(domain[1] = "-" \/ domain[Len(domain)] = "." \/ domain[Len(domain)] = "-")

\* cookie.ts:156-172
validatePath(path) == \A i \in 1..Len(path) : path[i] # ";"

RECURSIVE ToDecimal(_)
\* String(n) for an integer n >= 0
ToDecimal(n) ==
  IF n < 10 THEN <<Digits[n + 1]>>
  ELSE ToDecimal(n \div 10) \o <<Digits[(n % 10) + 1]>>

\* Date.prototype.toUTCString, in the model's notation of instants
ToUTCString(t) ==
  IF t.nan THEN <<"I","n","v","a","l","i","d"," ","D","a","t","e">>
  ELSE ToDecimal(t.n)

RECURSIVE Join(_, _)
\* Array.prototype.join
Join(parts, sep) ==
  IF parts = << >> THEN << >>
  ELSE IF Len(parts) = 1 THEN parts[1]
  ELSE parts[1] \o sep \o Join(Tail(parts), sep)

\* JavaScript truthiness of cookie.expires: a Date is an object, a number is
\* truthy unless it is 0 or NaN
ExpiresTruthy(e) == IsSome(e) /\ (Get(e).date \/ (~Get(e).t.nan /\ Get(e).t.n # 0))

PrefixFallbackKeepsDomain(cookie) ==
  IF StartsWith(cookie.name, <<"_","_","H","o","s","t">>)
    THEN [cookie EXCEPT !.path = Some(<<"/">>), !.secure = TRUE]
    ELSE cookie

\* cookie.ts:88-97: the fallback for the reserved prefixes writes the cookie
PrefixFallback(cookie) ==
  LET c1 == IF StartsWith(cookie.name, <<"_","_","S","e","c","u","r","e">>)
              THEN [cookie EXCEPT !.secure = TRUE] ELSE cookie
  IN IF StartsWith(cookie.name, <<"_","_","H","o","s","t">>)
       THEN [c1 EXCEPT !.path = Some(<<"/">>), !.secure = TRUE, !.domain = None]
       ELSE c1

\* cookie.ts:86-136: the parts pushed to out
PartsOf(c) ==
  <<c.name \o <<"=">> \o c.value>>
    \o (IF c.secure THEN <<<<"S","e","c","u","r","e">>>> ELSE << >>)
    \o (IF c.httpOnly THEN <<<<"H","t","t","p","O","n","l","y">>>> ELSE << >>)
    \o (IF c.partitioned
          THEN <<<<"P","a","r","t","i","t","i","o","n","e","d">>>> ELSE << >>)
    \o (IF IsSome(c.maxAge) /\ ~Get(c.maxAge).nan
          THEN <<<<"M","a","x","-","A","g","e","=">> \o ToDecimal(Get(c.maxAge).n)>>
          ELSE << >>)
    \o (IF IsSome(c.domain) /\ Get(c.domain) # << >>
          THEN <<<<"D","o","m","a","i","n","=">> \o Get(c.domain)>> ELSE << >>)
    \o (IF IsSome(c.sameSite) /\ Get(c.sameSite) # << >>
          THEN <<<<"S","a","m","e","S","i","t","e","=">> \o Get(c.sameSite)>>
          ELSE << >>)
    \o (IF IsSome(c.path) /\ Get(c.path) # << >>
          THEN <<<<"P","a","t","h","=">> \o Get(c.path)>> ELSE << >>)
    \o (IF ExpiresTruthy(c.expires)
          THEN <<<<"E","x","p","i","r","e","s","=">> \o ToUTCString(Get(c.expires).t)>>
          ELSE << >>)
    \o (IF IsSome(c.unparsed) THEN <<Join(Get(c.unparsed), <<";", " ">>)>> ELSE << >>)

\* cookie.ts:79-137: the string returned (or the fact that an error was
\* thrown) and the cookie as the call leaves it
cookieToString(cookie) ==
  IF cookie.name = << >>
    THEN [threw |-> FALSE, text |-> << >>, cookie |-> cookie]
  ELSE IF ~(validateName(cookie.name) /\ validateValue(cookie.value))
    THEN [threw |-> TRUE, text |-> << >>, cookie |-> cookie]
  ELSE
    LET c == PrefixFallback(cookie)
        ok == /\ (IsSome(c.maxAge) /\ ~Get(c.maxAge).nan) => Get(c.maxAge).n >= 0
              /\ (IsSome(c.domain) /\ Get(c.domain) # << >>) => validateDomain(Get(c.domain))
              /\ (IsSome(c.path) /\ Get(c.path) # << >>) => validatePath(Get(c.path))
    IN IF ok
         THEN [threw |-> FALSE, text |-> Join(PartsOf(c), <<";", " ">>), cookie |-> c]
         ELSE [threw |-> TRUE, text |-> << >>, cookie |-> c]

(***************************************************************************)
(* CookieJar.  A URL is its protocol, hostname and pathname; a response is *)
(* its URL and the values of its Set-Cookie headers.                       *)
(***************************************************************************)
Localhost == <<"l","o","c","a","l","h","o","s","t">>
HostAB == <<"a",".","b">>

URLs ==
  {[protocol |-> "https:", hostname |-> HostAB, pathname |-> <<"/","d","/","p">>],
   [protocol |-> "http:", hostname |-> HostAB, pathname |-> <<"/","d","/","p">>],
   [protocol |-> "http:", hostname |-> Localhost, pathname |-> <<"/">>]}

\* s=1; Secure
SecureHeader ==
  <<"s","=","1",";"," ","S","e","c","u","r","e">>
\* n=1
PlainHeader ==
  <<"n","=","1">>
\* __Securex=1
LegacyPrefixHeader ==
  <<"_","_","S","e","c","u","r","e","x","=","1">>
\* n=; Expires=1
ExpiringHeader ==
  <<"n","=",";"," ","E","x","p","i","r","e","s","=","1">>

\* d=1; Domain=x.a.b
SubdomainHeader ==
  <<"d","=","1",";"," ","D","o","m","a","i","n","=","x",".","a",".","b">>
\* q=1; Domain=b
ParentDomainHeader ==
  <<"q","=","1",";"," ","D","o","m","a","i","n","=","b">>
\* p=1; Path=/d/p/
PathHeader ==
  <<"p","=","1",";"," ","P","a","t","h","=","/","d","/","p","/">>
\* =v
NamelessHeader ==
  <<"=","v">>
\* a b=1
InvalidNameHeader ==
  <<"a"," ","b","=","1">>
\* m=1; Max-Age=-1
NegativeMaxAgeHeader ==
  <<"m","=","1",";"," ","M","a","x","-","A","g","e","=","-","1">>
\* __Host-h=1; Secure
HostPrefixHeader ==
  <<"_","_","H","o","s","t","-","h","=","1",";"," ","S","e","c","u","r","e">>

SetCookieValues == {SecureHeader, PlainHeader, LegacyPrefixHeader, ExpiringHeader}

HeaderLists ==
  {<<h>> : h \in SetCookieValues}
    \cup {<<SecureHeader, PlainHeader>>, <<PlainHeader, ExpiringHeader>>}

HostXAB == <<"x",".","a",".","b">>
SecureAB == [protocol |-> "https:", hostname |-> HostAB, pathname |-> <<"/","d","/","p">>]
SecureXAB == [protocol |-> "https:", hostname |-> HostXAB, pathname |-> <<"/","d","/","p","/","q">>]

LocalURL == [protocol |-> "http:", hostname |-> Localhost, pathname |-> <<"/">>]

\* the targets of getCookies
Targets == URLs \cup {SecureXAB}

Responses ==
  [url : URLs, headers : HeaderLists]
    \cup [url : {SecureAB},
          headers : {<<SubdomainHeader>>, <<ParentDomainHeader>>, <<PathHeader>>,
                     <<NamelessHeader>>, <<HostPrefixHeader>>,
                     <<NegativeMaxAgeHeader, PlainHeader>>,
                     <<InvalidNameHeader>>}]
    \cup [url : {LocalURL}, headers : {<<ParentDomainHeader>>}]

\* arguments of removeCookies
RemoveAll == [domain |-> None, path |-> None, name |-> None]
Matchers ==
  {RemoveAll,
   [domain |-> Some(HostAB), path |-> None, name |-> Some(<<"n">>)],
   [domain |-> Some(HostAB), path |-> Some(<<"/">>), name |-> Some(<<"s">>)],
   [domain |-> None, path |-> Some(<<"/">>), name |-> Some(<<"n">>)],
   [domain |-> Some(HostAB), path |-> Some(<<"/","d">>), name |-> Some(<<"n">>)],
   [domain |-> Some(HostAB), path |-> Some(<<"/","d","/","p","/">>),
    name |-> Some(<<"n">>)],
   [domain |-> Some(HostAB), path |-> None, name |-> None],
   [domain |-> Some(HostAB), path |-> Some(<<"/">>), name |-> None]}

\* the response of a cookie that fromCookies put into the jar
Restored ==
  [secure |-> FALSE, protocol |-> "", hostname |-> << >>, pathname |-> << >>,
   value |-> << >>]

\* arguments of fromCookies: a cookie whose expires is the number e
RestoredCookie(e) ==
  [cookie |-> [NewCookie(<<"r">>, <<"1">>) EXCEPT
                 !.expires = Some([date |-> FALSE, t |-> Num(e)]),
                 !.domain = Some(HostAB), !.path = Some(<<"/">>)],
   rx |-> Restored]

Restorable == {<<RestoredCookie(0)>>}

\* `${x}` for an optional string
Text(m) == IF IsSome(m) THEN Get(m) ELSE <<"u","n","d","e","f","i","n","e","d">>

\* truthiness of an optional string
Truthy(m) == IsSome(m) /\ Get(m) # << >>

\* part_000:20 and 58: cookie.expires && Number(cookie.expires) < Date.now()
Expired(cookie, t) ==
  ExpiresTruthy(cookie.expires) /\ ~Get(cookie.expires).t.nan
    /\ Get(cookie.expires).t.n < t

\* part_000:18-23
_removeExpired(st, t) == SelectSeq(st, LAMBDA e : ~Expired(e.cookie, t))

RemainsWhateverName(c, cookie) ==
  IF ~Truthy(cookie.domain) THEN FALSE
  ELSE IF ~Truthy(cookie.path) THEN c.domain # cookie.domain
  ELSE ~(/\ c.domain = cookie.domain
         /\ IF EndsWith(Get(cookie.path), <<"/">>)
              THEN IsSome(c.path) /\ StartsWith(Get(c.path), Get(cookie.path))
              ELSE \/ c.path = cookie.path
                   \/ IsSome(c.path)
                        /\ StartsWith(Get(c.path), Get(cookie.path) \o <<"/">>))

RemainsWhateverPath(c, cookie) ==
  IF ~Truthy(cookie.domain) THEN FALSE
  ELSE ~(c.domain = cookie.domain /\ Some(c.name) = cookie.name)

\* part_000:91-103: the filter callback of removeCookies
Remains(c, cookie) ==
  IF ~Truthy(cookie.domain) THEN FALSE
  ELSE IF ~Truthy(cookie.path)
    THEN ~(c.domain = cookie.domain /\ Some(c.name) = cookie.name)
  ELSE ~(/\ c.domain = cookie.domain
         /\ Some(c.name) = cookie.name
         /\ IF EndsWith(Get(cookie.path), <<"/">>)
              THEN IsSome(c.path) /\ StartsWith(Get(c.path), Get(cookie.path))
              ELSE \/ c.path = cookie.path
                   \/ IsSome(c.path)
                        /\ StartsWith(Get(c.path), Get(cookie.path) \o <<"/">>))

\* part_000:89-105
RemoveCookies(st, cookie) == SelectSeq(st, LAMBDA e : Remains(e.cookie, cookie))

\* part_000:29-42: the map callback of setCookie
WithDefaults(cookie, url) ==
  LET c1 == IF ~Truthy(cookie.domain)
              THEN [cookie EXCEPT !.domain = Some(url.hostname)] ELSE cookie
  IN IF ~Truthy(c1.path) THEN [c1 EXCEPT !.path = Some(url.pathname)] ELSE c1

InsecureTransportIgnored(cookie, url) == FALSE

\* part_000:46
InsecureTransport(cookie, url) == cookie.secure /\ url.protocol # "https:"

\* part_000:48-55
DomainAccepted(cookie, domain) ==
  \/ cookie.domain = Some(domain)
  \/ EndsWith(Get(cookie.domain), <<".">> \o domain)

\* the Set-Cookie value carries an attribute named Secure
HasSecureAttribute(value) ==
  LET parts == Split(value, ";") IN
  \E i \in 2..Len(parts) :
    LET t == Trim(parts[i])
        k == IndexOf(t, "=")
    IN ToLowerCase(IF k = 0 THEN t ELSE SubSeq(t, 1, k - 1))
         = <<"s","e","c","u","r","e">>

RECURSIVE Received(_, _)
\* part_000:28-42: the cookies of the response, with their defaults, each
\* with the response it came in
Received(headers, url) ==
  IF headers = << >> THEN << >>
  ELSE LET r == parseSetCookie(Head(headers)) IN
       (IF r = None THEN << >>
        ELSE <<[cookie |-> WithDefaults(Get(r), url),
                rx |-> [secure |-> HasSecureAttribute(Head(headers)),
                        protocol |-> url.protocol,
                        hostname |-> url.hostname,
                        pathname |-> url.pathname,
                        value |-> Head(headers)]]>>)
         \o Received(Tail(headers), url)

RECURSIVE Filter(_, _, _, _, _)
\* part_000:43-65: the filter callback over the received cookies, in order;
\* it may write _store through removeCookies
Filter(cookies, url, st, kept, t) ==
  IF cookies = << >> THEN [store |-> st, kept |-> kept]
  ELSE LET e == Head(cookies)
           rest == Tail(cookies)
       IN IF url.hostname = Localhost
            THEN Filter(rest, url, st, Append(kept, e), t)
          ELSE IF InsecureTransport(e.cookie, url)
            THEN Filter(rest, url, st, kept, t)
          ELSE IF ~DomainAccepted(e.cookie, url.hostname)
            THEN Filter(rest, url, st, kept, t)
          ELSE IF Expired(e.cookie, t)
            THEN Filter(rest, url,
                        RemoveCookies(st, [domain |-> e.cookie.domain,
                                           path |-> e.cookie.path,
                                           name |-> Some(e.cookie.name)]),
                        kept, t)
          ELSE Filter(rest, url, st, Append(kept, e), t)

\* the cookies of every response of the model, as Received yields them
ReceivedTable == {<<r, Received(r.headers, r.url)>> : r \in Responses}
RECURSIVE AsFunction(_)
\* the function whose graph is the set of pairs
AsFunction(pairs) ==
  IF pairs = {} THEN << >>
  ELSE LET p == CHOOSE q \in pairs : TRUE
       IN (p[1] :> p[2]) @@ AsFunction(pairs \ {p})
ReceivedOf == AsFunction(ReceivedTable)

\* part_000:25-68: _store after setCookie(response), and the cookies kept
SetCookie(st, response, t) ==
  LET r == Filter(ReceivedOf[response], response.url, st, << >>, t)
  IN [store |-> r.store \o r.kept, kept |-> r.kept]

MatchesExactPath(cookie, url) ==
  /\ \/ cookie.domain = Some(url.hostname)
     \/ EndsWith(url.hostname, <<".">> \o Text(cookie.domain))
  /\ IF IsSome(cookie.path) /\ EndsWith(Get(cookie.path), <<"/">>)
       THEN StartsWith(url.pathname, Get(cookie.path))
       ELSE Some(url.pathname) = cookie.path

\* part_000:75-81: the filter callback of getCookies
Matches(cookie, url) ==
  /\ \/ cookie.domain = Some(url.hostname)
     \/ EndsWith(url.hostname, <<".">> \o Text(cookie.domain))
  /\ IF IsSome(cookie.path) /\ EndsWith(Get(cookie.path), <<"/">>)
       THEN StartsWith(url.pathname, Get(cookie.path))
       ELSE \/ Some(url.pathname) = cookie.path
            \/ StartsWith(url.pathname, Text(cookie.path) \o <<"/">>)

RECURSIVE Serialise(_, _, _, _)
\* part_000:86: cookieToString over the matching cookies, in order; it
\* writes the cookies of _store and may throw
Serialise(st, i, url, texts) ==
  IF i > Len(st) THEN [store |-> st, out |-> [threw |-> FALSE, texts |-> texts]]
  ELSE IF ~Matches(st[i].cookie, url) THEN Serialise(st, i + 1, url, texts)
  ELSE LET r == cookieToString(st[i].cookie)
           st2 == [st EXCEPT ![i].cookie = r.cookie]
       IN IF r.threw
            THEN [store |-> st2, out |-> [threw |-> TRUE, texts |-> << >>]]
            ELSE Serialise(st2, i + 1, url, Append(texts, r.text))

\* part_000:70-87
GetCookies(st, url, t) == Serialise(_removeExpired(st, t), 1, url, << >>)

\* part_000:74-84: the cookies the filter of getCookies selects
Selected(st, url, t) ==
  SelectSeq(_removeExpired(st, t), LAMBDA e : Matches(e.cookie, url))

\* part_000:111-115
FromCookies(cookies) == cookies

(***************************************************************************)
(* The calls on the jar.                                                   *)
(***************************************************************************)
setCookie ==
  /\ UNCHANGED <<retryVars, cookieVars>>
  /\ \E response \in Responses :
       LET r == SetCookie(store, response, now)
           received == ReceivedOf[response]
       IN /\ Len(r.store) <= MaxStore
          /\ store' = r.store
          /\ dropped' = {received[i].rx : i \in 1..Len(received)}
                          \ {r.kept[i].rx : i \in 1..Len(r.kept)}
  /\ out' = NoOutput
  /\ target' = NoURL
  /\ selected' = << >>
  /\ removal' = NoRemoval
  /\ UNCHANGED now

getCookies ==
  /\ UNCHANGED <<retryVars, cookieVars>>
  /\ \E url \in Targets :
       LET r == GetCookies(store, url, now)
       IN /\ store' = r.store
          /\ out' = r.out
          /\ target' = url
          /\ selected' = Selected(store, url, now)
  /\ dropped' = {}
  /\ removal' = NoRemoval
  /\ UNCHANGED now

removeCookies ==
  /\ UNCHANGED <<retryVars, cookieVars>>
  /\ \E cookie \in Matchers :
       /\ store' = RemoveCookies(store, cookie)
       /\ removal' = [matcher |-> cookie,
                      count |-> Len(store) - Len(RemoveCookies(store, cookie))]
  /\ out' = NoOutput
  /\ dropped' = {}
  /\ target' = NoURL
  /\ selected' = << >>
  /\ UNCHANGED now

toJSON ==
  /\ UNCHANGED <<retryVars, cookieVars>>
  /\ store' = _removeExpired(store, now)
  /\ out' = NoOutput
  /\ dropped' = {}
  /\ target' = NoURL
  /\ selected' = << >>
  /\ removal' = NoRemoval
  /\ UNCHANGED now

\* a jar restored from a collection of cookies takes the place of the jar
fromCookies ==
  /\ UNCHANGED <<retryVars, cookieVars>>
  /\ \E cookies \in Restorable : store' = FromCookies(cookies)
  /\ out' = NoOutput
  /\ dropped' = {}
  /\ target' = NoURL
  /\ selected' = << >>
  /\ removal' = NoRemoval
  /\ UNCHANGED now

\* time passes between two calls
Tick ==
  /\ UNCHANGED <<retryVars, cookieVars>>
  /\ now < MaxNow
  /\ now' = now + 1
  /\ UNCHANGED <<store, out, dropped, target, selected, removal>>

\* a jar next to a retry call that is never started
JarInit ==
  /\ Init
  /\ cfg = [maxTries |-> [kind |-> "omitted", n |-> 0], predicate |-> FALSE,
            callback |-> "none", signal |-> "none", optsThrow |-> FALSE]

JarNext ==
  \/ setCookie
  \/ getCookies
  \/ removeCookies
  \/ toJSON
  \/ fromCookies
  \/ Tick

JarSpec == JarInit /\ [][JarNext]_vars

(***************************************************************************)
(* cookieToString and parseSetCookie applied to one cookie object that a   *)
(* caller builds: the object is written to a string, and the string is     *)
(* read back.                                                              *)
(***************************************************************************)
HostPrefix == <<"_","_","H","o","s","t","-">>

\* the fields a caller may give the object (cookie.ts:14-77)
CookieNames ==
  {<<"a">>, HostPrefix \o <<"h">>, <<"_","_","S","e","c","u","r","e","x">>,
   <<"a"," ","b">>}
CookieValues == {<<"1">>, <<"x","=","y">>, <<"a"," ","b">>}
CookieDomains ==
  {None, Some(<<"a",".","b">>), Some(<<".","a",".","b">>), Some(<<"-","a">>)}
CookiePaths == {None, Some(<<"/">>), Some(<<"/","d">>)}
CookieSameSites == {None, Some(<<"L","a","x">>)}
CookieMaxAges == {None, Some(Num(0)), Some(Num(12)), Some(Num(0 - 1))}

Cookies ==
  [name : CookieNames, value : CookieValues, expires : {None},
   maxAge : CookieMaxAges, domain : CookieDomains, path : CookiePaths,
   secure : BOOLEAN, httpOnly : BOOLEAN, partitioned : {FALSE},
   sameSite : CookieSameSites, unparsed : {None}]

\* the caller builds the object
build ==
  /\ stage = "none"
  /\ \E c \in Cookies :
       /\ original' = c
       /\ subject' = c
  /\ stage' = "built"
  /\ UNCHANGED <<written, parsed>>
  /\ UNCHANGED <<retryVars, jarVars>>

\* cookie.ts:79-137 applied to the object, which it may write
toString ==
  /\ stage = "built"
  /\ LET r == cookieToString(subject) IN
       /\ subject' = r.cookie
       /\ written' = [threw |-> r.threw, text |-> r.text]
  /\ stage' = "written"
  /\ UNCHANGED <<original, parsed>>
  /\ UNCHANGED <<retryVars, jarVars>>

\* cookie.ts:290-382 applied to the string returned
parse ==
  /\ stage = "written"
  /\ ~written.threw
  /\ parsed' = parseSetCookie(written.text)
  /\ stage' = "read"
  /\ UNCHANGED <<original, subject, written>>
  /\ UNCHANGED <<retryVars, jarVars>>

CookieNext ==
  \/ build
  \/ toString
  \/ parse

CookieSpec == JarInit /\ [][CookieNext]_vars

(***************************************************************************)
(* Properties of the retry engine.                                         *)
(***************************************************************************)
\* the caller supplied a number >= 1 as maxTries
NumericMaxTries == cfg.maxTries.kind = "number" /\ cfg.maxTries.n >= 1

\* the abort event did not fire while work() was still running
NoAbort == abortPhase # "running"

\* C1: with maxTries >= 1 and an operation none of whose invocations yields
\* a value (timeout and delay options evaluate normally, no abort), fn is
\* invoked at most maxTries times, and once work() has ended it has been
\* invoked exactly maxTries times, every one of the maxTries attempts has
\* failed and the call has failed with MAX_RETRIES_REACHED; whenever the
\* call has failed with MAX_RETRIES_REACHED, exactly maxTries attempts have
\* failed before.
C1_MaxRetriesAfterMaxTriesFailures ==
  NumericMaxTries =>
    /\ result.err = "MAX_RETRIES_REACHED" => failCount = cfg.maxTries.n
    /\ (racesWon = 0 /\ ~cfg.optsThrow) =>
         /\ fnCalls <= cfg.maxTries.n
         /\ failCount <= fnCalls
         /\ phase = "done" =>
              /\ fnCalls = cfg.maxTries.n
              /\ failCount = cfg.maxTries.n
              /\ NoAbort => result = Rejected("MAX_RETRIES_REACHED")

C1_Witness ==
  /\ cfg.maxTries = [kind |-> "number", n |-> 3]
  /\ racesWon = 0 /\ ~cfg.optsThrow
  /\ lastFailure = "OP_REJECTED"
  /\ fnCalls = 3
  /\ result = Rejected("MAX_RETRIES_REACHED")

\* C2: once the race of attempt k has been won by a value of fn (and the
\* predicate, if any, has accepted it), work() has ended, no further attempt
\* runs, attempts 1..k-1 are exactly the failed ones, fn has been invoked
\* exactly k times (options evaluating normally) and, unless aborted, the
\* call is resolved with the value attempt k produced.
C2_SuccessOnAttemptK ==
  (racesWon > 0 /\ (cfg.predicate => predTrue)) =>
    /\ phase = "done"
    /\ failCount = attemptedTimes - 1
    /\ ~ExceedsMaxTries(attemptedTimes)
    /\ ~cfg.optsThrow => fnCalls = attemptedTimes
    /\ NoAbort => result = Fulfilled(ValueOf(attemptedTimes))

C2_Witness ==
  /\ result = Fulfilled(ValueOf(2))
  /\ fnCalls = 2
  /\ failCount = 1
  /\ lastFailure = "OP_REJECTED"
  /\ cfg.maxTries = [kind |-> "number", n |-> 3]

\* C3: when the abort event fires while work() is still running (an attempt
\* in flight, a delay pending), the call is failed with RETRY_IS_ABORTED from
\* that step on, whatever maxTries is and whatever work() does afterwards.
C3_AbortPreempts ==
  abortPhase = "running" => result = Rejected("RETRY_IS_ABORTED")

C3_Witness ==
  /\ abortPhase = "running"
  /\ cfg.maxTries.kind = "infinity"
  /\ phase = "delaying"
  /\ delayTimer = "armed"
  /\ result = Rejected("RETRY_IS_ABORTED")

\* C4: the call's final failure is MAX_RETRIES_REACHED or RETRY_IS_ABORTED,
\* never an attempt error nor an error raised by the timeout, delay or
\* predicate option.
C4_OnlyTerminalFailures ==
  result.st = "rejected" =>
    result.err \in {"MAX_RETRIES_REACHED", "RETRY_IS_ABORTED"}

\* C5: a timer that fires while its attempt's race is undecided makes the
\* attempt fail with ATTEMPT_TIMEOUT_REACHED, reports it to onAttemptFailed
\* and lets the engine move on; the later settlement of an operation whose
\* attempt is over changes nothing but the set of pending operations; a
\* value the call is resolved with is the value of the attempt that ended
\* last, which is not among the failed ones.
C5_TimerStep ==
  (timeoutID # 0 /\ timeoutID' = 0 /\ timeoutID = attemptedTimes /\ phase = "racing") =>
    /\ failCount' = failCount + 1
    /\ lastFailure' = "ATTEMPT_TIMEOUT_REACHED"
    /\ cfg.callback # "none" =>
         cbLast' = [err |-> "ATTEMPT_TIMEOUT_REACHED", idx |-> attemptedTimes]
    /\ phase' \in {"delaying", "scheduled", "done"}
    /\ result'.st # "fulfilled"
    /\ attemptedTimes \in ops'

C5_LateSettlement ==
  \A n \in ops \ ops' :
    (n # attemptedTimes \/ phase # "racing") =>
      UNCHANGED <<phase, attemptedTimes, timeoutID, result, fnCalls, predCalls,
                  racesWon, predTrue, failVars>>

C5_TimeoutDiscardsLateResult ==
  /\ [][C5_TimerStep /\ C5_LateSettlement]_vars
  /\ [](result.st = "fulfilled" =>
          /\ result.val = ValueOf(attemptedTimes)
          /\ failCount = attemptedTimes - 1)

C5_Witness ==
  /\ lastFailure = "ATTEMPT_TIMEOUT_REACHED"
  /\ failCount = 1
  /\ attemptedTimes = 2
  /\ phase = "racing"
  /\ ops = {2}

\* C6: with a predicate configured it is evaluated once for each attempt
\* whose race was won by a value and for no other; the call is resolved
\* with a value only after an evaluation yielded true; and if every
\* invocation of fn so far won its race and no evaluation yielded true (nor
\* raised), every failure is ATTEMPT_PREDICATE_FAILED and, once work() has
\* ended, fn and the predicate have each been invoked exactly maxTries times
\* and the call has failed with MAX_RETRIES_REACHED.
C6_PredicateGatesSuccess ==
  /\ ~cfg.predicate => predCalls = 0
  /\ cfg.predicate =>
       /\ predCalls = racesWon
       /\ predCalls <= fnCalls
       /\ result.st = "fulfilled" => predTrue
       /\ (~cfg.optsThrow /\ ~predTrue /\ racesWon = fnCalls /\ phase # "racing") =>
            /\ failCount = predCalls - (IF phase = "predicate" THEN 1 ELSE 0)
            /\ failCount > 0 =>
                 lastFailure = "ATTEMPT_PREDICATE_FAILED" /\ onlyPredFailed
            /\ (phase = "done" /\ NumericMaxTries) =>
                 /\ fnCalls = cfg.maxTries.n
                 /\ predCalls = cfg.maxTries.n
                 /\ NoAbort => result = Rejected("MAX_RETRIES_REACHED")

C6_Witness ==
  /\ cfg.predicate /\ ~cfg.optsThrow /\ ~predTrue
  /\ cfg.maxTries = [kind |-> "number", n |-> 2]
  /\ racesWon = 2 /\ fnCalls = 2 /\ predCalls = 2
  /\ onlyPredFailed
  /\ result = Rejected("MAX_RETRIES_REACHED")

\* C7: onAttemptFailed has been invoked exactly once for each failed attempt
\* by the time the failing step ends (hence before the next attempt starts),
\* last with the last failure and that attempt's 1-based index; without a
\* callback nothing is invoked; an exception of the callback goes to the
\* host and never into the call's result.
C7_CallbackPerFailure ==
  /\ cfg.callback = "none" => cbCount = 0 /\ hostErrors = 0
  /\ cfg.callback # "none" =>
       /\ cbCount = failCount
       /\ failCount > 0 => cbLast = [err |-> lastFailure, idx |-> failCount]
       /\ failCount > 0 => cbLast.idx <= attemptedTimes
       /\ phase \in {"racing", "predicate"} => cbLast.idx = attemptedTimes - 1
  /\ hostErrors = (IF cfg.callback = "throws" THEN failCount ELSE 0)
  /\ result.err \in {"none", "MAX_RETRIES_REACHED", "RETRY_IS_ABORTED",
                     "DELAY_OPTION_ERROR"}

C7_Witness ==
  /\ cfg.callback = "throws"
  /\ cbCount = 2
  /\ cbLast = [err |-> "ATTEMPT_TIMEOUT_REACHED", idx |-> 2]
  /\ hostErrors = 2
  /\ phase = "racing"
  /\ attemptedTimes = 3

\* C8: the attempt counter moves from n to n+1 only in a step of its own,
\* taken when the 0 ms timer is pending, after attempt n has failed and,
\* if delay(n) > 0, after the delay timer armed by that failure has fired;
\* if delay(n) <= 0 no delay timer was armed.
C8_StartStep ==
  (attemptedTimes >= 1 /\ attemptedTimes' # attemptedTimes) =>
    /\ attemptedTimes' = attemptedTimes + 1
    /\ phase = "scheduled"
    /\ failCount = attemptedTimes
    /\ fnCalls' <= fnCalls + 1
    /\ lastDelay > 0 => delayTimer = "fired"
    /\ lastDelay <= 0 => delayTimer = "none"

C8_FailStep ==
  (failCount' # failCount) =>
    /\ failCount' = failCount + 1
    /\ phase' \in {"delaying", "scheduled", "done"}
    /\ phase' # "done" => (phase' = "delaying" <=> lastDelay' > 0)
    /\ phase' = "delaying" => delayTimer' = "armed"

C8_AttemptsSequential == [][C8_StartStep /\ C8_FailStep]_vars

C8_Witness ==
  /\ attemptedTimes = 2
  /\ phase = "racing"
  /\ lastDelay = 100
  /\ delayTimer = "fired"

\* C9: fn is never invoked more often than the maxTries the caller supplied
\* (0 included), nor more than 5 times when maxTries is omitted.
C9_AttemptCeiling ==
  /\ cfg.maxTries.kind = "number" => fnCalls <= cfg.maxTries.n
  /\ cfg.maxTries.kind = "omitted" => fnCalls <= DefaultMaxTries

(***************************************************************************)
(* Properties of the cookie jar.                                           *)
(***************************************************************************)
\* the cookie was received with the Secure attribute in a response whose URL
\* was neither HTTPS nor on the host localhost
SecureOverInsecure(e) ==
  e.rx.secure /\ e.rx.protocol # "https:" /\ e.rx.hostname # Localhost

\* C10: the jar holds no cookie that was received with the Secure attribute
\* in a response whose URL was neither HTTPS nor on the host localhost.
C10_NoSecureCookieFromInsecureResponse ==
  \A i \in 1..Len(store) : ~SecureOverInsecure(store[i])

\* the last setCookie dropped a Secure cookie of a response over http from
\* a.b, and the jar holds a Secure cookie received from localhost over http
C10_Witness ==
  /\ \E r \in dropped : r.secure /\ r.protocol = "http:" /\ r.hostname = HostAB
  /\ \E i \in 1..Len(store) :
       store[i].rx.secure /\ store[i].rx.hostname = Localhost
         /\ store[i].rx.protocol = "http:"

\* a step that is a call of getCookies: the other calls clear target, and
\* time does not pass during a call
GetCookiesStep == target' # NoURL /\ now' = now

\* the cookie's expires, a date or a number, is earlier than time t
ExpiresBefore(cookie, t) ==
  IsSome(cookie.expires) /\ ~Get(cookie.expires).t.nan
    /\ Get(cookie.expires).t.n < t

\* the target hostname equals the domain or ends with "." + the domain
DomainRule(cookie, url) ==
  IsSome(cookie.domain)
    /\ \/ url.hostname = Get(cookie.domain)
       \/ EndsWith(url.hostname, <<".">> \o Get(cookie.domain))

\* a cookie path ending in "/" is a literal prefix of the target path;
\* otherwise the target path equals the cookie path or starts with the
\* cookie path followed by "/"
PathRule(cookie, url) ==
  IsSome(cookie.path)
    /\ LET path == Get(cookie.path) IN
       IF path # << >> /\ path[Len(path)] = "/"
         THEN StartsWith(url.pathname, path)
         ELSE url.pathname = path \/ StartsWith(url.pathname, path \o <<"/">>)

C12_EntriesAreNameValuePairs ==
  (target # NoURL /\ ~out.threw) =>
    /\ Len(out.texts) = Len(selected)
    /\ \A j \in 1..Len(selected) :
         out.texts[j] = selected[j].cookie.name \o <<"=">> \o selected[j].cookie.value

\* C13: getCookies for a target URL whose scheme is not https returns no
\* cookie that is stored with the Secure attribute.
C13_SecureCookieNotReturnedOverInsecureTarget ==
  (target # NoURL /\ ~out.threw /\ target.protocol # "https:") =>
    \A j \in 1..Len(selected) : ~selected[j].cookie.secure

\* the cookie came in a response (fromCookies did not put it into the jar)
WasReceived(e) == e.rx.protocol # ""

\* the attributes of a Set-Cookie value, as parse reads them
AttributesOf(value) == Get(parseSetCookie(value))

\* domain equals the hostname or is a parent of it
EqualOrParent(domain, hostname) ==
  domain = hostname \/ EndsWith(hostname, <<".">> \o domain)

\* C14: a cookie stored from a response whose hostname is not localhost has
\* a domain that equals the response hostname or is a parent of it, and a
\* cookie whose Domain attribute is a parent of the response hostname (sent
\* over https, not expired) is not dropped.
C14_StoredDomainIsHostOrParent ==
  /\ \A i \in 1..Len(store) :
       (WasReceived(store[i]) /\ store[i].rx.hostname # Localhost) =>
         /\ IsSome(store[i].cookie.domain)
         /\ EqualOrParent(Get(store[i].cookie.domain), store[i].rx.hostname)
  /\ \A r \in dropped :
       (r.hostname # Localhost /\ r.protocol = "https:"
          /\ AttributesOf(r.value).expires = None
          /\ Truthy(AttributesOf(r.value).domain)) =>
         ~EqualOrParent(Get(AttributesOf(r.value).domain), r.hostname)

RECURSIVE LastIndexOf(_, _)
\* the position of the last c in s, 0 if there is none
LastIndexOf(s, c) ==
  IF s = << >> THEN 0
  ELSE IF s[Len(s)] = c THEN Len(s)
  ELSE LastIndexOf(SubSeq(s, 1, Len(s) - 1), c)

\* the path with its last "/"-delimited segment removed, "/" by default
DirectoryOf(pathname) ==
  IF LastIndexOf(pathname, "/") <= 1 THEN <<"/">>
  ELSE SubSeq(pathname, 1, LastIndexOf(pathname, "/") - 1)

\* C15: a cookie received without a Domain attribute is stored with the
\* hostname of the response URL as its domain, and a cookie received without
\* a Path attribute is stored with the directory of the response URL's path
\* as its path.
C15_DefaultDomainAndPath ==
  \A i \in 1..Len(store) :
    WasReceived(store[i]) =>
      /\ ~Truthy(AttributesOf(store[i].rx.value).domain) =>
           store[i].cookie.domain = Some(store[i].rx.hostname)
      /\ ~Truthy(AttributesOf(store[i].rx.value).path) =>
           store[i].cookie.path = Some(DirectoryOf(store[i].rx.pathname))

\* a step that is the call setCookie(response)
SetCookieStep(response) ==
  /\ now' = now
  /\ target' = NoURL
  /\ store' = SetCookie(store, response, now).store
  /\ Len(store') <= MaxStore

\* the received cookie is not one that sets secure over a response that is
\* neither https nor on localhost, and its domain is the response hostname
\* or a parent of it
PassedSecureAndDomain(e) ==
  /\ ~(e.cookie.secure /\ e.rx.protocol # "https:" /\ e.rx.hostname # Localhost)
  /\ EqualOrParent(Get(e.cookie.domain), e.rx.hostname)

\* the received cookie is expired at time t and passed the two filters
ExpiredOnReceipt(e, t) == PassedSecureAndDomain(e) /\ ExpiresBefore(e.cookie, t)

\* the stored cookie c has the name and the domain of cookie, and a path
\* that matches the path of cookie
SameNameDomainPath(c, cookie) ==
  /\ c.name = cookie.name
  /\ c.domain = cookie.domain
  /\ IsSome(c.path) /\ IsSome(cookie.path)
  /\ IF EndsWith(Get(cookie.path), <<"/">>)
       THEN StartsWith(Get(c.path), Get(cookie.path))
       ELSE \/ c.path = cookie.path
            \/ StartsWith(Get(c.path), Get(cookie.path) \o <<"/">>)

\* C16: when setCookie receives cookies that are already expired (and passed
\* the secure and domain filters), the store afterwards is the old store
\* without the cookies of the same name and domain and a matching path,
\* followed by cookies of the response none of which is one of the expired.
C16_ExpiredOnIngestRemovesAndIsNotAdded ==
  [][\A response \in Responses :
       SetCookieStep(response) =>
         LET received == ReceivedOf[response]
             gone(e) == \E k \in 1..Len(received) :
                          /\ ExpiredOnReceipt(received[k], now)
                          /\ SameNameDomainPath(e.cookie, received[k].cookie)
             others == SelectSeq(store, LAMBDA e : ~gone(e))
         IN /\ Len(store') >= Len(others)
            /\ SubSeq(store', 1, Len(others)) = others
            /\ \A j \in (Len(others) + 1)..Len(store') :
                 /\ \E k \in 1..Len(received) : received[k] = store'[j]
                 /\ ~ExpiredOnReceipt(store'[j], now)]_vars

\* a step that is a call of removeCookies: the other calls clear removal,
\* and time does not pass during a call
RemoveCookiesStep == removal'.count >= 0 /\ now' = now

\* what the matcher selects: everything when it has no domain; the cookies
\* of its domain and name when it has no path; with a path, those of them
\* whose path equals the matcher path, is a "/"-descendant of it, or has the
\* matcher path, ending in "/", as a prefix
Selects(matcher, c) ==
  IF ~Truthy(matcher.domain) THEN TRUE
  ELSE /\ c.domain = matcher.domain
       /\ Some(c.name) = matcher.name
       /\ Truthy(matcher.path) =>
            /\ IsSome(c.path)
            /\ \/ c.path = matcher.path
               \/ StartsWith(Get(c.path), Get(matcher.path) \o <<"/">>)
               \/ /\ EndsWith(Get(matcher.path), <<"/">>)
                  /\ StartsWith(Get(c.path), Get(matcher.path))

\* C17: removeCookies deletes exactly the cookies its matcher selects and
\* leaves the others as they are, in their order.
C17_RemoveDeletesExactlySelected ==
  [][RemoveCookiesStep =>
       /\ store' = SelectSeq(store, LAMBDA e : ~Selects(removal'.matcher, e.cookie))
       /\ removal'.count = Len(store) - Len(store')]_vars

\* removeCookies with a domain, a name and the path /d deleted one cookie (a
\* descendant path) and left another one in the jar
C17_Witness ==
  /\ removal.matcher.path = Some(<<"/","d">>)
  /\ removal.count = 1
  /\ Len(store) = 1

\* C18: when getCookies or toJSON returns, the store holds no cookie whose
\* expires (a date or a number) is earlier than the time of the call, no
\* such cookie is among the selected ones, and the store has kept every
\* cookie that is not expired.
C18_ReadSweepsExpired ==
  [][(GetCookiesStep \/ toJSON) =>
       /\ \A i \in 1..Len(store') : ~ExpiresBefore(store'[i].cookie, now)
       /\ \A j \in 1..Len(selected') : ~ExpiresBefore(selected'[j].cookie, now)
       /\ Len(store')
            = Len(SelectSeq(store, LAMBDA e : ~ExpiresBefore(e.cookie, now)))]_vars

\* C19: the jar holds no received cookie whose name is empty, and no entry
\* returned by getCookies is the empty string.
C19_NoNamelessCookie ==
  /\ \A i \in 1..Len(store) : WasReceived(store[i]) => store[i].cookie.name # << >>
  /\ ~out.threw => \A j \in 1..Len(out.texts) : out.texts[j] # << >>

\* the Set-Cookie value has an attribute of this (lower-case) name
HasAttribute(value, name) ==
  \E i \in 2..Len(AttrsOf(value)) : ToLowerCase(AttrsOf(value)[i].key) = name

\* the Set-Cookie value is one that parse is to drop: a negative Max-Age; a
\* name starting with __Secure without Secure; a name starting with __Host-
\* without Secure, with a Domain, or with a Path other than /
MustDrop(value) ==
  LET attrs == AttrsOf(value)
      name == attrs[1].key
  IN \/ \E i \in 2..Len(attrs) :
          /\ ToLowerCase(attrs[i].key) = <<"m","a","x","-","a","g","e">>
          /\ ~NumberOf(attrs[i].value).nan /\ NumberOf(attrs[i].value).n < 0
     \/ /\ StartsWith(name, <<"_","_","S","e","c","u","r","e">>)
        /\ ~HasSecureAttribute(value)
     \/ /\ StartsWith(name, <<"_","_","H","o","s","t","-">>)
        /\ \/ ~HasSecureAttribute(value)
           \/ HasAttribute(value, <<"d","o","m","a","i","n">>)
           \/ ~\E i \in 2..Len(attrs) :
                 /\ ToLowerCase(attrs[i].key) = <<"p","a","t","h">>
                 /\ attrs[i].value = <<"/">>

\* C20: setCookie stores nothing of a Set-Cookie value that parse is to
\* drop, and stores the other cookies of the response as it would without
\* that value.
C20_DroppedValuesAreNotStored ==
  [][\A response \in Responses :
       SetCookieStep(response) =>
         LET others == SelectSeq(response.headers, LAMBDA h : ~MustDrop(h))
             r == Filter(Received(others, response.url), response.url,
                         store, << >>, now)
         IN store' = r.store \o r.kept]_vars


(***************************************************************************)
(* Properties of cookieToString and parseSetCookie.                        *)
(***************************************************************************)
\* a name the regular expression accepts, a value validateValue accepts
ValidNameAndValue(c) ==
  /\ c.name # << >>
  /\ \A i \in 1..Len(c.name) : c.name[i] \notin NameForbidden
  /\ \A i \in 1..Len(c.value) : c.value[i] \notin {" ", "\"", ",", ";", "\\"}

ReservedPrefixName(c) ==
  \/ StartsWith(c.name, <<"_","_","S","e","c","u","r","e">>)
  \/ StartsWith(c.name, <<"_","_","H","o","s","t">>)

\* the object was written and read back, and the claim covers it
RoundTripped ==
  stage = "read" /\ ValidNameAndValue(original) /\ ~ReservedPrefixName(original)

SameButDomain(c, p) ==
  /\ p.name = c.name
  /\ p.value = c.value
  /\ IsSome(c.path) => p.path = c.path
  /\ c.secure => p.secure
  /\ c.httpOnly => p.httpOnly
  /\ IsSome(c.sameSite) => p.sameSite = c.sameSite
  /\ IsSome(c.maxAge) => p.maxAge = c.maxAge

WithoutLeadingDot(d) == IF d # << >> /\ d[1] = "." THEN Tail(d) ELSE d

\* C21 as stated: a cookie with a valid name and value and no reserved
\* prefix, written and read back, is non-null and has the same name and
\* value and the same domain, path, secure, httpOnly, sameSite and maxAge
\* for each of those that was set
C21_RoundTripKeepsEveryField ==
  RoundTripped =>
    /\ parsed # None
    /\ SameButDomain(original, Get(parsed))
    /\ IsSome(original.domain) => Get(parsed).domain = original.domain

\* C21 amended: the same, except that the domain read back is the domain
\* written without its leading "."
C21_RoundTripUpToLeadingDot ==
  RoundTripped =>
    /\ parsed # None
    /\ SameButDomain(original, Get(parsed))
    /\ IsSome(original.domain) =>
         Get(parsed).domain = Some(WithoutLeadingDot(Get(original.domain)))

C21_Witness ==
  /\ RoundTripped
  /\ original.value = <<"x","=","y">>
  /\ original.domain = Some(<<".","a",".","b">>)
  /\ original.path = Some(<<"/","d">>)
  /\ original.maxAge = Some(Num(12))
  /\ original.secure /\ original.httpOnly /\ IsSome(original.sameSite)

\* the text written, cut at its separators
Emitted == LET parts == Split(written.text, ";") IN
  {Trim(parts[i]) : i \in 1..Len(parts)}

HostPrefixWritten ==
  /\ stage \in {"written", "read"}
  /\ ~written.threw
  /\ StartsWith(original.name, HostPrefix)

\* C22: the text written for a cookie whose name starts with "__Host-" has
\* "Secure" and "Path=/" and no "Domain=" attribute, whatever secure, path
\* and domain the object carried
C22_HostPrefixWritesSecureRootPathNoDomain ==
  HostPrefixWritten =>
    /\ <<"S","e","c","u","r","e">> \in Emitted
    /\ <<"P","a","t","h","=","/">> \in Emitted
    /\ \A part \in Emitted : ~StartsWith(part, <<"D","o","m","a","i","n","=">>)

C22_Witness ==
  /\ HostPrefixWritten
  /\ ~original.secure
  /\ original.path = Some(<<"/","d">>)
  /\ original.domain = Some(<<"a",".","b">>)


(***************************************************************************)
(* Further properties of the retry engine.                                 *)
(***************************************************************************)
\* the call has failed with RETRY_IS_ABORTED
Aborted == result = Rejected("RETRY_IS_ABORTED")

\* C23: once the call has failed with RETRY_IS_ABORTED, it invokes neither
\* the operation, nor the predicate, nor onAttemptFailed again
C23_NothingInvokedAfterAbort ==
  [][Aborted => /\ fnCalls' = fnCalls
                /\ predCalls' = predCalls
                /\ cbCount' = cbCount]_vars


(***************************************************************************)
(* Further properties of the cookie jar.                                   *)
(***************************************************************************)
\* C24: setCookie for a response from localhost stores no cookie whose
\* domain is neither localhost nor a parent of it, and a cookie of the
\* response that is already expired is not in the store afterwards, nor is
\* any stored cookie of its name and domain with a matching path.
C24_LocalhostExemptsOnlyTheSecureCheck ==
  [][\A response \in Responses :
       (response.url.hostname = Localhost /\ SetCookieStep(response)) =>
         LET received == ReceivedOf[response] IN
         \A k \in 1..Len(received) :
           /\ ~EqualOrParent(Get(received[k].cookie.domain), Localhost) =>
                \A i \in 1..Len(store') : store'[i] # received[k]
           /\ ExpiresBefore(received[k].cookie, now) =>
                \A i \in 1..Len(store') :
                  ~SameNameDomainPath(store'[i].cookie, received[k].cookie)]_vars

\* the previous call was getCookies for the same URL, and no cookie has
\* expired since
SameCallAgain == target' = target /\ _removeExpired(store, now) = store

\* C25: getCookies leaves in the store exactly the cookies that its sweep
\* of expired cookies leaves, with every attribute as it was, and a second call for the same
\* URL with no expiry in between returns what the first returned.
C25_GetCookiesOnlySweeps ==
  [][GetCookiesStep =>
       /\ store' = _removeExpired(store, now)
       /\ SameCallAgain => out' = out]_vars

\* C26: getCookies does not throw when every cookie of the store came in a
\* response.
C26_GetCookiesNeverThrows ==
  [][(GetCookiesStep /\ \A i \in 1..Len(store) : WasReceived(store[i])) =>
       ~out'.threw]_vars


\* the call was removeCookies with a domain and no name
RemovedByDomainOnly(r) == Truthy(r.matcher.domain) /\ r.matcher.name = None

\* C30: removeCookies with a domain and no name, with or without a path,
\* leaves the store as it is (every cookie of the jar has a name that is a
\* string).
C30_RemoveWithoutNameDeletesNothing ==
  [][(RemoveCookiesStep /\ RemovedByDomainOnly(removal')) => store' = store]_vars

\* the call had a domain, the path "/" and no name, and the jar holds a
\* cookie of that domain
C30_Witness ==
  /\ RemovedByDomainOnly(removal)
  /\ removal.matcher.path = Some(<<"/">>)
  /\ \E i \in 1..Len(store) : store[i].cookie.domain = removal.matcher.domain

\* the same without a path
C30_WitnessNoPath ==
  /\ RemovedByDomainOnly(removal)
  /\ removal.matcher.path = None
  /\ \E i \in 1..Len(store) : store[i].cookie.domain = removal.matcher.domain


(***************************************************************************)
(* Termination, the predicate and the signal of the retry engine.          *)
(***************************************************************************)
\* every invocation of fn returned a promise that is still pending
NoOperationSettled == Cardinality(ops) = fnCalls

\* the call has its final resolution
Resolved == result # Pending

\* the maxTries the caller asked for: the number given, 5 when omitted
RequestedMaxTries ==
  IF cfg.maxTries.kind = "number" THEN cfg.maxTries.n ELSE DefaultMaxTries

\* C27: a call with a finite maxTries whose options do not throw is
\* eventually resolved, whatever the operation does; and when no invocation
\* of the operation has settled and the signal has not fired, it is resolved
\* with MAX_RETRIES_REACHED after exactly maxTries invocations of the
\* operation, each of which ended in a failure, the last of them
\* ATTEMPT_TIMEOUT_REACHED.
C27_Terminates ==
  /\ (phase # "idle") ~> Resolved
  /\ []((Resolved /\ NoOperationSettled /\ ~Aborted) =>
          /\ result = Rejected("MAX_RETRIES_REACHED")
          /\ fnCalls = RequestedMaxTries
          /\ failCount = RequestedMaxTries
          /\ predCalls = 0
          /\ RequestedMaxTries > 0 => lastFailure = "ATTEMPT_TIMEOUT_REACHED")

\* the attempt stays where it is
AttemptWaits ==
  /\ phase' = phase
  /\ UNCHANGED <<attemptedTimes, fnCalls, predCalls, failCount, cbCount>>
  /\ \/ result' = result
     \/ signal = "live" /\ result' = Rejected("RETRY_IS_ABORTED")

\* C28: while the promise of the predicate is pending, the call is
\* unresolved unless the signal has fired, and every step other than the
\* settling of that promise, the firing of the attempt's timer included,
\* leaves the attempt where it is: no failure, no further attempt, and no
\* resolution other than by the signal.
C28_TimerDoesNotBoundPredicate ==
  [][phase = "predicate" =>
       /\ result \in {Pending, Rejected("RETRY_IS_ABORTED")}
       /\ PredSettle \/ AttemptWaits]_vars

\* the attempt's timer fired while the promise of the predicate was pending
C28_Witness ==
  /\ phase = "predicate"
  /\ timeoutID = 0
  /\ result = Pending

\* C29: a call given a signal that is already aborted is resolved with
\* RETRY_IS_ABORTED only.
C29_AlreadyAbortedSignalFailsTheCall ==
  (cfg.signal = "aborted" /\ Resolved) => Aborted


\* the two cookies have the same name, domain and path
SameKey(c, cookie) ==
  c.name = cookie.name /\ c.domain = cookie.domain /\ c.path = cookie.path

\* C31: when a response carries a cookie that is not expired, followed by a
\* cookie of the same name, domain and path that is already expired (both
\* passing the secure and domain filters), the store after setCookie holds no
\* cookie of that name, domain and path.
C31_HeadersTakeEffectInOrder ==
  [][\A response \in Responses :
       SetCookieStep(response) =>
         LET received == ReceivedOf[response] IN
         \A k \in 1..Len(received) : \A j \in 1..(k - 1) :
           (/\ PassedSecureAndDomain(received[j])
            /\ ~ExpiresBefore(received[j].cookie, now)
            /\ ExpiredOnReceipt(received[k], now)
            /\ SameKey(received[j].cookie, received[k].cookie)) =>
             \A i \in 1..Len(store') :
               ~SameKey(store'[i].cookie, received[k].cookie)]_vars

=============================================================================
